---- MODULE Spec2Model ----
(***************************************************************************)
(* Countdown to the next Chinese New Year (src/src/App.tsx, the two-button *)
(* variant, and src/unnamed/part_000, the whole-page-click variant).       *)
(*                                                                         *)
(* Two specifications share the module:                                    *)
(*   SpecDate  the date arithmetic (getNextCNY, daysBetween, the daysLeft  *)
(*             memo) on every calendar day from before the first table     *)
(*             entry to after the fallback date, in several time zones;    *)
(*   Spec      the view: the export handlers, their asynchronous steps,    *)
(*             the toast and its auto-hide timers.                         *)
(*                                                                         *)
(* A JavaScript Date is a count of milliseconds since the epoch.  Epoch    *)
(* milliseconds do not fit TLC's integers, so a Date is kept here as the   *)
(* pair [d |-> whole UTC days since 1970-01-01, ms |-> milliseconds into   *)
(* that day]; comparison, subtraction and division are carried out on the  *)
(* pair exactly.                                                           *)
(***************************************************************************)
EXTENDS Integers, Sequences, FiniteSets, TLC

VARIABLES
    \* ---- environment of the date arithmetic
    zone,        \* the client's time zone
    wall,        \* the wall-clock reading behind `new Date()` in the memo
    now,         \* that reading as a Date
    wall2,       \* the wall-clock reading behind `new Date()` in getNextCNY, or
                 \* behind the second argument of a direct daysBetween call
    dpc,         \* "start" | "rendered" | "probed"
    nextCNY,     \* the Date getNextCNY returned
    daysLeft,    \* the memoised day count
    probeA,      \* ) arguments and result of a direct daysBetween call
    probeB,      \* )
    probeRes,    \* )
    \* ---- the view
    variant,     \* "buttons" (App.tsx) | "page" (part_000)
    userAgent,   \* navigator.userAgent, a sequence of characters
    cardRef,     \* cardRef.current
    toast,       \* the toast state
    timers,      \* pending auto-hide timers, in firing order
    clock,       \* milliseconds since the page loaded
    calls,       \* one record per invocation of an export handler
    lastShow,    \* the most recent showToast call
    clicks       \* page clicks handled

dateVars == <<zone, wall, now, wall2, dpc, nextCNY, daysLeft, probeA, probeB, probeRes>>
viewVars == <<variant, userAgent, cardRef, toast, timers, clock, calls, lastShow, clicks>>
vars == <<dateVars, viewVars>>

NULL == "null"

-----------------------------------------------------------------------------
(* Bounds of the model *)

\* The system clock is read on any day from DaysBefore days before the first
\* table entry to DaysAfter days after the fallback date.
DaysBefore == 60
DaysAfter == 30

-----------------------------------------------------------------------------
(* The holiday table *)

CNY_DATES ==
    << <<2025, 1, 29>>, <<2026, 2, 17>>, <<2027, 2, 6>>, <<2028, 1, 26>>,
       <<2029, 2, 13>>, <<2030, 2, 3>>, <<2031, 1, 23>>, <<2032, 2, 11>>,
       <<2033, 1, 31>>, <<2034, 2, 19>>, <<2035, 2, 8>>, <<2036, 1, 28>> >>

msPerDay == 86400000
MsPerHour == msPerDay \div 24

-----------------------------------------------------------------------------
(* The proleptic Gregorian calendar behind Date's local-time fields *)

\* Day serial (days since 1970-01-01) of the civil date y-m-d, m in 1..12.
DaysFromCivil(y, m, d) ==
    LET yy  == IF m <= 2 THEN y - 1 ELSE y
        era == yy \div 400
        yoe == yy - era * 400
        mp  == IF m > 2 THEN m - 3 ELSE m + 9
        doy == (153 * mp + 2) \div 5 + d - 1
        doe == yoe * 365 + yoe \div 4 - yoe \div 100 + doy
    IN  era * 146097 + doe - 719468

\* The civil date of day doy (0 = 1 March) of the March-based year y0.
CivilFromDoy(y0, doy) ==
    LET mp == (5 * doy + 2) \div 153
    IN  [y |-> y0 + (IF mp < 10 THEN 0 ELSE 1),
         m |-> IF mp < 10 THEN mp + 3 ELSE mp - 9,
         d |-> doy - (153 * mp + 2) \div 5 + 1]

\* The civil date of day doe of a 400-year era, yoe being its year of the era.
CivilFromYoe(era, doe, yoe) ==
    CivilFromDoy(yoe + era * 400, doe - (365 * yoe + yoe \div 4 - yoe \div 100))

CivilFromDoe(era, doe) ==
    CivilFromYoe(era, doe,
                 (doe - doe \div 1460 + doe \div 36524 - doe \div 146096) \div 365)

\* The civil date of a day serial.
CivilFromDays(z) == CivilFromDoe((z + 719468) \div 146097, (z + 719468) % 146097)

\* Day serial of table entry i, of the last entry and of the fallback date.
EntryDay(i) == DaysFromCivil(CNY_DATES[i][1], CNY_DATES[i][2], CNY_DATES[i][3])
LastEntryDay == EntryDay(Len(CNY_DATES))
FallbackDay ==
    LET last == CNY_DATES[Len(CNY_DATES)]
    IN  DaysFromCivil(last[1] + 1, last[2], last[3])

\* The days the system clock is read on.
Days == (EntryDay(1) - DaysBefore) .. (FallbackDay + DaysAfter)

\* The calendar of every day the model's dates fall on: the days the clock is
\* read on and a year on either side.
CalendarDays == (EntryDay(1) - DaysBefore - 366) .. (FallbackDay + DaysAfter + 366)
Calendar == [z \in CalendarDays |-> CivilFromDays(z)]

\* 0 = Sunday; 1970-01-01 was a Thursday.
WeekDay(z) == (z + 4) % 7

\* Day serial of the n-th Sunday of month m of year y.
NthSunday(y, m, n) ==
    LET first == DaysFromCivil(y, m, 1)
    IN  first + ((7 - WeekDay(first)) % 7) + 7 * (n - 1)

-----------------------------------------------------------------------------
(* Time values *)

\* A time value normalised so that 0 <= ms < msPerDay.
Norm(dd, mm) == [d |-> dd + mm \div msPerDay, ms |-> mm % msPerDay]

AddMs(t, delta) == Norm(t.d, t.ms + delta)

\* a <= b on time values (the relational operators on Date compare getTime()).
TimeLeq(a, b) == a.d < b.d \/ (a.d = b.d /\ a.ms <= b.ms)

TimeLt(a, b) == a.d < b.d \/ (a.d = b.d /\ a.ms < b.ms)

-----------------------------------------------------------------------------
(* Time zones: the local-time rules `new Date(y, m, d)` and getFullYear(),  *)
(* getMonth(), getDate() go through                                         *)

\* std: the standard offset from UTC; rule: the daylight-saving rule.
\*   "none"  no daylight saving (Asia/Shanghai)
\*   "us"    second Sunday of March 02:00 to first Sunday of November 02:00
\*   "cl"    first Sunday of September 00:00 to first Sunday of April 00:00:
\*           on the day saving starts local midnight does not exist
\*   "cu"    second Sunday of March 00:00 to first Sunday of November 01:00:
\*           on the day saving ends local midnight happens twice
Zones ==
    { [name |-> "Asia/Shanghai",     std |-> 8 * MsPerHour,    rule |-> "none"],
      [name |-> "America/New_York",  std |-> (-5) * MsPerHour, rule |-> "us"],
      [name |-> "America/Santiago",  std |-> (-4) * MsPerHour, rule |-> "cl"],
      [name |-> "America/Havana",    std |-> (-5) * MsPerHour, rule |-> "cu"] }

\* The transition Sundays of each year the model's dates fall in.
Sundays ==
    [y \in CivilFromDays(EntryDay(1) - DaysBefore - 366).y ..
            CivilFromDays(FallbackDay + DaysAfter + 366).y |->
        [mar2 |-> NthSunday(y, 3, 2),  apr1 |-> NthSunday(y, 4, 1),
         sep1 |-> NthSunday(y, 9, 1),  nov1 |-> NthSunday(y, 11, 1)]]

\* hours o'clock on a day of the standard-time clock.
At(day, hours) == Norm(day, hours * MsPerHour)

\* Whether daylight saving is in effect at s on the standard-time clock, sun
\* being the transition Sundays of that year.
InDstRule(rule, s, sun) ==
    CASE rule = "none" -> FALSE
      [] rule = "us" -> TimeLeq(At(sun.mar2, 2), s) /\ TimeLt(s, At(sun.nov1, 1))
      [] rule = "cl" -> ~ (TimeLeq(At(sun.apr1, -1), s) /\ TimeLt(s, At(sun.sep1, 0)))
      [] rule = "cu" -> TimeLeq(At(sun.mar2, 0), s) /\ TimeLt(s, At(sun.nov1, 0))

InDstStd(rule, s) == InDstRule(rule, s, Sundays[Calendar[s.d].y])

\* Whether daylight saving is in effect at the instant t.
InDst(z, t) == InDstStd(z.rule, AddMs(t, z.std))

\* The zone's offset from UTC at the instant t.
OffsetAt(z, t) == z.std + (IF InDst(z, t) THEN MsPerHour ELSE 0)

\* The instant a local clock reading denotes.  A reading that happens twice
\* denotes the earlier instant; one that never happens is read with the offset
\* in force before the transition.
LocalToUtc(z, local) ==
    LET asDst == AddMs(local, -(z.std + MsPerHour))
        asStd == AddMs(local, -(z.std))
    IN  IF InDst(z, asDst) THEN asDst ELSE asStd

\* The local clock reading of the instant t.
UtcToLocal(z, t) == AddMs(t, OffsetAt(z, t))

\* new Date(year, monthIndex, day): local midnight of that date.
NewDate(z, y, monthIndex, d) ==
    LocalToUtc(z, [d |-> DaysFromCivil(y, monthIndex + 1, d), ms |-> 0])

\* The local calendar fields of the instant t.
LocalFields(z, t) == Calendar[UtcToLocal(z, t).d]

getFullYear(z, t) == LocalFields(z, t).y
getMonth(z, t) == LocalFields(z, t).m - 1
getDate(z, t) == LocalFields(z, t).d

\* new Date(year, monthIndex, day) of local calendar fields.
DateOfFields(z, f) == NewDate(z, f.y, f.m - 1, f.d)

\* new Date(t.getFullYear(), t.getMonth(), t.getDate())
StartOfDay(z, t) == DateOfFields(z, LocalFields(z, t))

-----------------------------------------------------------------------------
(* Date math *)

\* The fallback without the added year.
FallbackSameYear(z) ==
    LET last == CNY_DATES[Len(CNY_DATES)]
    IN  NewDate(z, last[1], last[2] - 1, last[3])

\* The fallback past the end of the table.
Fallback(z) ==
    LET last == CNY_DATES[Len(CNY_DATES)]
    IN  NewDate(z, last[1] + 1, last[2] - 1, last[3])

\* new Date(y, m - 1, d) of every table entry, per zone.
CnyDate ==
    [z \in Zones |->
        [i \in 1 .. Len(CNY_DATES) |->
            NewDate(z, CNY_DATES[i][1], CNY_DATES[i][2] - 1, CNY_DATES[i][3])]]

\* The scan with the comparison cny > today.
RECURSIVE ScanFromStrict(_, _, _)
ScanFromStrict(z, today, i) ==
    IF i > Len(CNY_DATES)
    THEN NewDate(z, CNY_DATES[Len(CNY_DATES)][1] + 1, CNY_DATES[Len(CNY_DATES)][2] - 1,
                 CNY_DATES[Len(CNY_DATES)][3])
    ELSE IF TimeLt(today, CnyDate[z][i]) THEN CnyDate[z][i] ELSE ScanFromStrict(z, today, i + 1)

\* The scan of getNextCNY from entry i on; today is local midnight.
RECURSIVE ScanFrom(_, _, _)
ScanFrom(z, today, i) ==
    IF i > Len(CNY_DATES)
    THEN Fallback(z)
    ELSE IF TimeLeq(today, CnyDate[z][i]) THEN CnyDate[z][i] ELSE ScanFrom(z, today, i + 1)

\* getNextCNY(), with the instant its `new Date()` read.
getNextCNY(z, clockRead) == ScanFrom(z, StartOfDay(z, clockRead), 1)

\* Math.floor(n / d) in place of Math.round.
MathFloor(n, d) == n \div d

\* Math.round(n / d) for d > 0: the nearest integer, halves towards +infinity.
MathRound(n, d) == (2 * n + d) \div (2 * d)

\* Math.round((bDay.getTime() - aDay.getTime()) / msPerDay)
DayDifference(aDay, bDay) == (bDay.d - aDay.d) + MathRound(bDay.ms - aDay.ms, msPerDay)

daysBetween(z, a, b) == DayDifference(StartOfDay(z, a), StartOfDay(z, b))

-----------------------------------------------------------------------------
(* The date arithmetic as a state machine *)

\* Times of day the clock is read at: midnight, an afternoon and the last
\* millisecond of the day.
Tods == {0, 15 * MsPerHour + 1234567, msPerDay - 1}

\* Second arguments of a direct daysBetween call: a calendar-day distance from
\* the clock reading and a time of day.
ProbeTargets ==
    { [delta |-> -1, tod |-> msPerDay - 1],
      [delta |-> 1, tod |-> 0],
      [delta |-> 200, tod |-> 15 * MsPerHour + 1234567] }

NoDate == [d |-> -1, ms |-> -1]

InitDate ==
    /\ zone \in Zones
    /\ wall \in [d : Days, ms : Tods]
    /\ now = LocalToUtc(zone, wall)
    /\ wall2 = wall
    /\ dpc = "start"
    /\ nextCNY = NoDate
    /\ daysLeft = 0
    /\ probeA = NoDate /\ probeB = NoDate /\ probeRes = 0
    /\ variant = "buttons" /\ userAgent = <<>> /\ cardRef = NULL
    /\ toast = NULL /\ timers = <<>> /\ clock = 0
    /\ calls = <<>> /\ lastShow = [msg |-> NULL, id |-> 0, due |-> 0] /\ clicks = 0

\* The clock readings getNextCNY's own `new Date()` can give after the memo
\* read `wall`: the same reading, or the next day's first when midnight passes
\* between the two reads.
LaterReadings(w) ==
    {w} \cup (IF w.ms = msPerDay - 1 THEN {[d |-> w.d + 1, ms |-> 0]} ELSE {})

\* useMemo(() => daysBetween(today, getNextCNY()), [])
Render ==
    /\ dpc = "start"
    /\ \E w2 \in LaterReadings(wall) :
          \E today \in {StartOfDay(zone, now)} :
          \E cny \in {getNextCNY(zone, LocalToUtc(zone, w2))} :
              /\ wall2' = w2
              /\ nextCNY' = cny
              /\ daysLeft' = daysBetween(zone, today, cny)
    /\ dpc' = "rendered"
    /\ UNCHANGED <<zone, wall, now, probeA, probeB, probeRes, viewVars>>

\* daysBetween(a, b) called on the clock reading and a date delta days away.
ProbeDaysBetween ==
    /\ dpc = "start"
    /\ \E p \in ProbeTargets :
          \E b \in {LocalToUtc(zone, [d |-> wall.d + p.delta, ms |-> p.tod])} :
              /\ wall2' = [d |-> wall.d + p.delta, ms |-> p.tod]
              /\ probeA' = now
              /\ probeB' = b
              /\ probeRes' = daysBetween(zone, now, b)
    /\ dpc' = "probed"
    /\ UNCHANGED <<zone, wall, now, nextCNY, daysLeft, viewVars>>

NextDate == Render \/ ProbeDaysBetween

SpecDate == InitDate /\ [][NextDate]_vars

-----------------------------------------------------------------------------
(* Bounds of the view *)

\* Invocations of the export handlers in one run.
MaxCalls == 2
\* The page's clock advances half a toast delay at a time, MaxTicks times.
MaxTicks == 3

-----------------------------------------------------------------------------
(* Platform detection *)

\* Strings are sequences of characters.
UpperCase == <<"A","B","C","D","E","F","G","H","I","J","K","L","M",
               "N","O","P","Q","R","S","T","U","V","W","X","Y","Z">>
LowerCase == <<"a","b","c","d","e","f","g","h","i","j","k","l","m",
               "n","o","p","q","r","s","t","u","v","w","x","y","z">>

ToLower(s) ==
    [k \in 1 .. Len(s) |->
        IF \E n \in 1 .. 26 : UpperCase[n] = s[k]
        THEN LowerCase[CHOOSE n \in 1 .. 26 : UpperCase[n] = s[k]]
        ELSE s[k]]

\* Whether needle occurs in hay.
Contains(hay, needle) ==
    \E k \in 0 .. Len(hay) - Len(needle) :
        \A j \in 1 .. Len(needle) : hay[k + j] = needle[j]

\* The alternatives of /Android|iPhone|iPad|iPod|webOS|BlackBerry|IEMobile|Opera Mini/i
MobilePatterns ==
    { <<"A", "n", "d", "r", "o", "i", "d">>,
      <<"i", "P", "h", "o", "n", "e">>,
      <<"i", "P", "a", "d">>,
      <<"i", "P", "o", "d">>,
      <<"w", "e", "b", "O", "S">>,
      <<"B", "l", "a", "c", "k", "B", "e", "r", "r", "y">>,
      <<"I", "E", "M", "o", "b", "i", "l", "e">>,
      <<"O", "p", "e", "r", "a", " ", "M", "i", "n", "i">> }

\* The pattern matched case-sensitively.
isMobileCaseSensitive(ua) == \E p \in MobilePatterns : Contains(ua, p)

isMobile(ua) == \E p \in MobilePatterns : Contains(ToLower(ua), ToLower(p))

\* navigator.userAgent of three clients.
UA_iPhone ==
    <<"(", "i", "P", "h", "o", "n", "e", ";", " ", "C", "P", "U", " ", "i", "P", "h", "o", "n", "e", " ", "O", "S", " ", "1", "7", "_", "0", " ", "l", "i", "k", "e", " ", "M", "a", "c", " ", "O", "S", " ", "X", ")">>
UA_Macintosh ==
    <<"(", "M", "a", "c", "i", "n", "t", "o", "s", "h", ";", " ", "I", "n", "t", "e", "l", " ", "M", "a", "c", " ", "O", "S", " ", "X", " ", "1", "0", "_", "1", "5", "_", "7", ")">>
UA_android ==
    <<"(", "l", "i", "n", "u", "x", ";", " ", "a", "n", "d", "r", "o", "i", "d", " ", "1", "4", ";", " ", "p", "i", "x", "e", "l", " ", "8", ")">>
UserAgents == {UA_iPhone, UA_Macintosh, UA_android}

-----------------------------------------------------------------------------
(* The toast *)

ToastDelay == 2000
TickMs == ToastDelay \div 2

\* The four messages: "已复制到剪贴板 ✅", "复制失败，请重试", "已保存图片 ✅",
\* "保存失败，请重试".
MsgCopied == "copied to clipboard"
MsgCopyFailed == "copy failed, retry"
MsgSaved == "image saved"
MsgSaveFailed == "save failed, retry"

FailMsg(op) == IF op = "copy" THEN MsgCopyFailed ELSE MsgSaveFailed

\* showToast without the setTimeout.
ShowToastNoTimer(msg) ==
    /\ toast' = msg
    /\ timers' = timers
    /\ lastShow' = [msg |-> msg, id |-> lastShow.id + 1, due |-> clock + ToastDelay]

\* showToast(msg): setToast(msg); setTimeout(() => setToast(null), 2000)
showToast(msg) ==
    /\ toast' = msg
    /\ timers' = Append(timers, [id |-> lastShow.id + 1, due |-> clock + ToastDelay])
    /\ lastShow' = [msg |-> msg, id |-> lastShow.id + 1, due |-> clock + ToastDelay]

\* A timer callback runs: () => setToast(null).  Timers of equal delay run in
\* the order they were set, each no earlier than its delay.
TimerFires ==
    /\ timers # <<>>
    /\ Head(timers).due <= clock
    /\ toast' = NULL
    /\ timers' = Tail(timers)
    /\ UNCHANGED <<dateVars, variant, userAgent, cardRef, clock, calls, lastShow, clicks>>

\* Time passes.
Tick ==
    /\ clock < MaxTicks * TickMs
    /\ clock' = clock + TickMs
    /\ UNCHANGED <<dateVars, variant, userAgent, cardRef, toast, timers, calls, lastShow, clicks>>

-----------------------------------------------------------------------------
(* Capture and export *)

\* React attaches the card element to cardRef when the first render commits.
AttachCard ==
    /\ cardRef = NULL
    /\ cardRef' = "div.countdown-card"
    /\ UNCHANGED <<dateVars, variant, userAgent, toast, timers, clock, calls, lastShow, clicks>>

\* captureCard without the check of the reference.
captureCardUnchecked(ref) == "pending"

\* captureCard(): null without a card, else the promise of html2canvas.
captureCard(ref) == IF ref = NULL THEN "null" ELSE "pending"

\* The handlers with the try/catch inside the toBlob callback left out.
CatchOfOuterOnly(op, step) ==
    CASE op = "copy" /\ step \in {"capture", "toBlob"} -> "outer"
      [] op = "download" /\ step \in {"capture", "toDataURL"} -> "outer"
      [] OTHER -> "none"

\* The catch block that covers a step of a handler: "none" when the step is
\* inside no try.
CatchOf(op, step) ==
    CASE op = "copy" /\ step \in {"capture", "toBlob"} -> "outer"
      [] op = "copy" /\ step \in {"item", "write"} -> "inner"
      [] op = "download" /\ step \in {"capture", "toDataURL"} -> "outer"
      [] OTHER -> "none"

\* A call that has just started.  ref: cardRef.current as captureCard saw it;
\* cause: why the export failed, "none" while it has not; notified: the message
\* the call passed to showToast; escaped: an exception or rejection left the
\* handler; writes, anchors, downloads, file: the call's effects on the
\* clipboard and the document.
NewCall(op, ref) ==
    [op |-> op, ref |-> ref, pc |-> "capturing", cause |-> "none", notified |-> NULL,
     escaped |-> FALSE, writes |-> 0, anchors |-> 0, downloads |-> 0, file |-> NULL]

\* Call i ends without a word.
ReturnSilently(i, cause) ==
    /\ calls' = [calls EXCEPT ![i].pc = "done", ![i].cause = cause]
    /\ UNCHANGED <<toast, timers, lastShow>>

\* A step of call i throws, or the promise it awaits rejects.
Raise(i, step, cause) ==
    IF CatchOf(calls[i].op, step) = "none"
    THEN /\ calls' = [calls EXCEPT ![i].pc = "done", ![i].cause = cause,
                                   ![i].escaped = TRUE]
         /\ UNCHANGED <<toast, timers, lastShow>>
    ELSE /\ calls' = [calls EXCEPT ![i].pc = "done", ![i].cause = cause,
                                   ![i].notified = FailMsg(calls[i].op)]
         /\ showToast(FailMsg(calls[i].op))

\* copyToClipboard() or downloadImage() is called, up to its first await
\* of html2canvas.
Invoke(op) ==
    /\ Len(calls) < MaxCalls
    /\ IF captureCard(cardRef) = "null"
       THEN calls' = Append(calls, [NewCall(op, cardRef) EXCEPT !.pc = "done",
                                                               !.cause = "noCard"])
       ELSE calls' = Append(calls, NewCall(op, cardRef))
    /\ UNCHANGED <<dateVars, variant, userAgent, cardRef, toast, timers, clock, lastShow>>

\* handleClick with the two branches exchanged.
DispatchSwapped(ua) == IF isMobile(ua) THEN "copy" ELSE "download"

\* The handler handleClick calls.
Dispatch(ua) == IF isMobile(ua) THEN "download" ELSE "copy"

\* The two buttons of App.tsx.
ClickCopyButton ==
    /\ variant = "buttons"
    /\ Invoke("copy")
    /\ UNCHANGED clicks

ClickDownloadButton ==
    /\ variant = "buttons"
    /\ Invoke("download")
    /\ UNCHANGED clicks

\* A click anywhere in the page of part_000.
handleClick ==
    /\ variant = "page"
    /\ Invoke(Dispatch(userAgent))
    /\ clicks' = clicks + 1

\* html2canvas rejects.
CaptureRejects(i) ==
    /\ calls[i].pc = "capturing"
    /\ Raise(i, "capture", "captureRejected")
    /\ UNCHANGED <<dateVars, variant, userAgent, cardRef, clock, clicks>>

\* html2canvas resolves in copyToClipboard: canvas.toBlob(callback, "image/png")
\* throws or queues the callback.
CopyEncodes(i) ==
    /\ calls[i].pc = "capturing"
    /\ calls[i].op = "copy"
    /\ \/ Raise(i, "toBlob", "encodeThrew")
       \/ /\ calls' = [calls EXCEPT ![i].pc = "encoding"]
          /\ UNCHANGED <<toast, timers, lastShow>>
    /\ UNCHANGED <<dateVars, variant, userAgent, cardRef, clock, clicks>>

\* The toBlob callback runs: without a blob it returns; with one it builds the
\* ClipboardItem and calls navigator.clipboard.write.
BlobCallback(i) ==
    /\ calls[i].pc = "encoding"
    /\ \/ ReturnSilently(i, "noBlob")
       \/ Raise(i, "item", "clipboardUnavailable")
       \/ /\ calls' = [calls EXCEPT ![i].pc = "writing", ![i].writes = @ + 1]
          /\ UNCHANGED <<toast, timers, lastShow>>
    /\ UNCHANGED <<dateVars, variant, userAgent, cardRef, clock, clicks>>

\* The clipboard write settles.
WriteSettles(i) ==
    /\ calls[i].pc = "writing"
    /\ \/ /\ calls' = [calls EXCEPT ![i].pc = "done", ![i].notified = MsgCopied]
          /\ showToast(MsgCopied)
       \/ Raise(i, "write", "writeRejected")
    /\ UNCHANGED <<dateVars, variant, userAgent, cardRef, clock, clicks>>

\* html2canvas resolves in downloadImage: canvas.toDataURL throws, or the
\* anchor is made, clicked and removed.
DownloadEncodes(i) ==
    /\ calls[i].pc = "capturing"
    /\ calls[i].op = "download"
    /\ \/ Raise(i, "toDataURL", "encodeThrew")
       \/ /\ calls' = [calls EXCEPT ![i].pc = "done", ![i].notified = MsgSaved,
                                    ![i].anchors = @ + 1, ![i].downloads = @ + 1,
                                    ![i].file = daysLeft]
          /\ showToast(MsgSaved)
    /\ UNCHANGED <<dateVars, variant, userAgent, cardRef, clock, clicks>>

-----------------------------------------------------------------------------
(* The view as a state machine *)

\* The clock reading the view is loaded at.
LoadWalls == { [d |-> DaysFromCivil(2025, 1, 1), ms |-> 15 * MsPerHour] }

Init ==
    /\ zone \in {z \in Zones : z.rule = "us"}
    /\ wall \in LoadWalls
    /\ now = LocalToUtc(zone, wall)
    /\ wall2 = wall
    /\ dpc = "rendered"
    /\ nextCNY = getNextCNY(zone, now)
    /\ daysLeft = daysBetween(zone, StartOfDay(zone, now), getNextCNY(zone, now))
    /\ probeA = NoDate /\ probeB = NoDate /\ probeRes = 0
    /\ variant \in {"buttons", "page"}
    /\ userAgent \in UserAgents
    /\ cardRef = NULL
    /\ toast = NULL
    /\ timers = <<>>
    /\ clock = 0
    /\ calls = <<>>
    /\ lastShow = [msg |-> NULL, id |-> 0, due |-> 0]
    /\ clicks = 0

Next ==
    \/ AttachCard
    \/ ClickCopyButton
    \/ ClickDownloadButton
    \/ handleClick
    \/ \E i \in 1 .. Len(calls) : CaptureRejects(i)
    \/ \E i \in 1 .. Len(calls) : CopyEncodes(i)
    \/ \E i \in 1 .. Len(calls) : BlobCallback(i)
    \/ \E i \in 1 .. Len(calls) : WriteSettles(i)
    \/ \E i \in 1 .. Len(calls) : DownloadEncodes(i)
    \/ TimerFires
    \/ Tick

Spec == Init /\ [][Next]_vars

-----------------------------------------------------------------------------
(* Properties of the date arithmetic, checked under SpecDate *)

\* The calendar date a Date shows in the client's zone, as a table triple.
TripleOf(f) == <<f.y, f.m, f.d>>
LocalDate(t) == TripleOf(LocalFields(zone, t))

\* C1: the day count memoised at view initialisation is never negative,
\* whatever day the clock shows.
C1_DaysLeftNonNegative == dpc = "rendered" => daysLeft >= 0

\* C3: when the clock shows a day on or before the last table entry,
\* getNextCNY returns the table entry with the smallest date that is on or
\* after that day, whatever the time of day: the entry itself on a holiday.
C3_NextIsEarliestEntry ==
    (dpc = "rendered" /\ wall2.d <= LastEntryDay) =>
        LET later == {i \in 1 .. Len(CNY_DATES) : EntryDay(i) >= wall2.d}
        IN  \E i \in later :
                /\ \A j \in later : EntryDay(i) <= EntryDay(j)
                /\ LocalDate(nextCNY) = CNY_DATES[i]

\* C3 happens: the clock shows the last millisecond of 2026-02-17, a holiday,
\* in a zone where daylight saving is in effect, and that day is returned; and
\* before the first entry the first entry is returned.
C3_Witness ==
    /\ dpc = "rendered"
    /\ zone.rule = "cl"
    /\ wall2 = [d |-> DaysFromCivil(2026, 2, 17), ms |-> msPerDay - 1]
    /\ LocalDate(nextCNY) = <<2026, 2, 17>>

\* C4: getNextCNY returns 2037-01-28, the last entry's month and day one year
\* on, exactly when the clock shows a day after the last table entry.
C4_FallbackIffPastTable ==
    dpc = "rendered" =>
        ( (wall2.d > LastEntryDay) <=> (LocalDate(nextCNY) = <<2037, 1, 28>>) )

\* C4 happens: on 2036-06-01 the fallback 2037-01-28 is 241 days away.
C4_Witness ==
    /\ dpc = "rendered"
    /\ wall.d = DaysFromCivil(2036, 6, 1)
    /\ LocalDate(nextCNY) = <<2037, 1, 28>>
    /\ daysLeft = 241

\* C8: daysBetween is the signed difference of the two local calendar days:
\* of a direct call, of the memo's call, and 28 and 0 on 2025-01-01 and
\* 2025-01-29.
C8_DaysBetweenExact ==
    /\ dpc = "probed" => probeRes = wall2.d - wall.d
    /\ dpc = "rendered" =>
            LET shown == LocalDate(nextCNY)
            IN  daysLeft = DaysFromCivil(shown[1], shown[2], shown[3]) - wall.d
    /\ ( /\ dpc = "rendered"
          /\ wall.d = DaysFromCivil(2025, 1, 1)
          /\ LocalDate(nextCNY) = <<2025, 1, 29>> ) => daysLeft = 28
    /\ ( /\ dpc = "rendered"
          /\ wall.d = DaysFromCivil(2025, 1, 29)
          /\ LocalDate(nextCNY) = <<2025, 1, 29>> ) => daysLeft = 0

\* C8 happens: the two local midnights are 23 hours apart, the clocks going
\* forward between 2030-03-10 and 2030-03-11, and the result is one day.
C8_Witness ==
    /\ dpc = "probed"
    /\ zone.rule = "us"
    /\ wall.d = DaysFromCivil(2030, 3, 10)
    /\ wall2.d = DaysFromCivil(2030, 3, 11)
    /\ ~ InDst(zone, StartOfDay(zone, probeA))
    /\ InDst(zone, StartOfDay(zone, probeB))
    /\ probeRes = 1

-----------------------------------------------------------------------------
(* Properties of the view, checked under Spec *)

Done(i) == calls[i].pc = "done"
Failed(i) == calls[i].cause # "none"

\* C2: every export that failed, for whatever reason, has shown the failure
\* toast of its handler.
C2_EveryFailureNotified ==
    \A i \in 1 .. Len(calls) :
        (Done(i) /\ Failed(i)) => calls[i].notified = FailMsg(calls[i].op)

\* C5: until two seconds have passed since the most recent showToast call, the
\* toast shows that call's message; no earlier call's timer hides it.
C5_LastToastStaysVisible ==
    (lastShow.id > 0 /\ clock < lastShow.due) => toast = lastShow.msg

\* C6: a handler that runs while cardRef.current is null ends at once, lets no
\* error escape, writes nothing to the clipboard, makes no anchor and starts
\* no download.
C6_NullCardNoEffect ==
    \A i \in 1 .. Len(calls) :
        calls[i].ref = NULL =>
            /\ Done(i)
            /\ ~ calls[i].escaped
            /\ calls[i].writes = 0
            /\ calls[i].anchors = 0
            /\ calls[i].downloads = 0
            /\ calls[i].file = NULL

\* C6 happens: both handlers have run without a card.
C6_Witness ==
    /\ Len(calls) = 2
    /\ calls[1].op = "copy" /\ calls[1].ref = NULL /\ calls[1].cause = "noCard"
    /\ calls[2].op = "download" /\ calls[2].ref = NULL /\ calls[2].cause = "noCard"

\* C7: whatever html2canvas, the encoding step, the toBlob callback and the
\* clipboard write do, no exception or rejection leaves a handler.
C7_NothingEscapes ==
    \A i \in 1 .. Len(calls) : ~ calls[i].escaped

\* C7 happens: a clipboard write was rejected inside the toBlob callback and
\* toDataURL threw in a download, and both calls ended in their handlers.
C7_Witness ==
    /\ Len(calls) = 2
    /\ \E i, j \in 1 .. 2 :
        /\ calls[i].op = "copy" /\ Done(i) /\ calls[i].cause = "writeRejected"
        /\ calls[i].writes = 1
        /\ calls[j].op = "download" /\ Done(j) /\ calls[j].cause = "encodeThrew"
    /\ \A i \in 1 .. 2 : ~ calls[i].escaped

\* C9: in the whole-page-click variant a click starts exactly one export and
\* leaves the earlier ones as they are: downloadImage on the iPhone and
\* Android clients, copyToClipboard on the Macintosh.
C9_ClickDispatch ==
    [][ clicks' = clicks + 1 =>
            /\ Len(calls') = Len(calls) + 1
            /\ \A i \in 1 .. Len(calls) : calls'[i] = calls[i]
            /\ calls'[Len(calls')].op =
                   (IF userAgent \in {UA_iPhone, UA_android} THEN "download" ELSE "copy")
      ]_vars

\* C9 happens: two clicks on a client whose identification says "android" in
\* lower case each started a download.
C9_Witness ==
    /\ variant = "page"
    /\ userAgent = UA_android
    /\ clicks = 2
    /\ Len(calls) = 2
    /\ \A i \in 1 .. 2 : calls[i].op = "download"

\* C10: the toast is visible only while an auto-hide timer is pending, the
\* timer of the most recent showToast call among them; with no timer left the
\* toast is hidden.
C10_VisibleOnlyWhilePending ==
    toast # NULL =>
        /\ timers # <<>>
        /\ \E k \in 1 .. Len(timers) : timers[k].id = lastShow.id

\* C10 happens: two toasts were shown, every timer has fired, the toast is
\* hidden.
C10_Witness ==
    /\ lastShow.id = 2
    /\ timers = <<>>
    /\ toast = NULL

====
